---- MODULE Spec2Model ----
(***************************************************************************)
(* Model of the desktop cover finder (src/app4_koncowe.py, class           *)
(* ManifestApp; src/app4.py is the same program under other names) and of  *)
(* the command-line scans: the hybrid ones (src/laion_and_ocr!.py,         *)
(* src/ocr_and_clip.py, src/laion_grupowanie_zdjec.py) and the ones with a *)
(* single classifier (src/laion.py, src/file4.py).                         *)
(*                                                                         *)
(* Strings are sequences of one-character strings, so that str.strip,      *)
(* str.rstrip and the f-string joins are computed character by character.  *)
(* A JSON value that may be absent from a dict is a record with a "kind":  *)
(* "missing" (no such key), "str" (a string, field s) or "other" (a value  *)
(* that is no string, such as a number or null).                           *)
(***************************************************************************)
EXTENDS Integers, Sequences, FiniteSets, TLC

VARIABLES
    manifest,          \* self.manifest: None or the fetched dict
    canvases,          \* self.canvases
    total_pages,       \* self.total_pages
    analysis_results,  \* self.analysis_results
    editors,           \* the open editor windows, each with its check_vars
    widgets,           \* state of the buttons and entries toggle_ui sets
    start_entry,       \* text of self.start_entry
    end_entry,         \* text of self.end_entry
    url_entry,         \* text of self.url_entry (which document it names)
    worker,            \* the background threads started, each with its position
    after_queue,       \* callbacks posted with root.after, not yet run
    progress,          \* the progress bar: shown or not, and its value
    last,              \* what the handler of the program that ran last did:
                       \* its locals and the lines it logged
    scan               \* the command-line programs: the locals of the scan
                       \* that analizuj_manifest / analizuj_strony runs

\* the state of the desktop program
gui_vars == <<manifest, canvases, total_pages, analysis_results, editors, widgets,
              start_entry, end_entry, url_entry, worker, after_queue, progress, last>>

vars == <<gui_vars, scan>>

-----------------------------------------------------------------------------
(* Bounds of the model *)

MaxPages == 3        \* pages of a document in the editor specification
MaxFetchPages == 1   \* pages of a document the GUI specification fetches
MaxEditors == 1      \* editor windows open at the same time

-----------------------------------------------------------------------------
(* Values *)

None == [none |-> TRUE]

Missing == [kind |-> "missing"]
NonStr == [kind |-> "other"]
StrV(s) == [kind |-> "str", s |-> s]

Min(a, b) == IF a < b THEN a ELSE b

Digits == <<"0", "1", "2", "3", "4", "5", "6", "7", "8", "9">>

\* str(n) of a non-negative int, as interpolated by the f-strings
RECURSIVE Str(_)
Str(n) == IF n < 10 THEN <<Digits[n + 1]>>
          ELSE Str(n \div 10) \o <<Digits[(n % 10) + 1]>>

\* the literals of save_manifest
DEFAULT_BASE_ID == <<"h","t","t","p",":","/","/","e","x","a","m","p","l","e",
                     ".","c","o","m","/","m","a","n","i","f","e","s","t">>
RANGE_INFIX == <<"/","r","a","n","g","e","/","r">>
LABEL_PREFIX == <<"z","a","k","r","e","s"," ","o","d"," ","s","t","r","o","n","y"," ">>

\* s.rstrip(ch): drop every trailing ch
RECURSIVE RStripChar(_, _)
RStripChar(s, ch) ==
    IF s # <<>> /\ s[Len(s)] = ch THEN RStripChar(SubSeq(s, 1, Len(s) - 1), ch) ELSE s

\* s.lstrip(ch)
RECURSIVE LStripChar(_, _)
LStripChar(s, ch) ==
    IF s # <<>> /\ s[1] = ch THEN LStripChar(Tail(s), ch) ELSE s

\* s.strip(): the model's only whitespace character is the blank
Strip(s) == LStripChar(RStripChar(s, " "), " ")

\* seq[a:b] of Python for 0 <= a and 0 <= b (b is clamped to the length)
Slice(seq, a, b) == SubSeq(seq, a + 1, Min(b, Len(seq)))

\* sorted(S) for a finite set of ints
RECURSIVE Sorted(_)
Sorted(S) ==
    IF S = {} THEN <<>>
    ELSE LET m == CHOOSE x \in S : \A y \in S : x <= y
         IN <<m>> \o Sorted(S \ {m})

-----------------------------------------------------------------------------
(* save_manifest: the range construction *)

\* cover_pages = sorted([num for num, var in check_vars.items() if var.get()])
CoverPages(check_vars) == Sorted({num \in DOMAIN check_vars : check_vars[num]})

\* self.manifest.get('@id', 'http://example.com/manifest')
GetBaseId(m) == IF m.id.kind = "missing" THEN StrV(DEFAULT_BASE_ID) ELSE m.id

\* `if not base_id.strip()`: the id is empty or blank
IsBlank(base_id) == Strip(base_id) = <<>>

\* base_id after the `if not base_id.strip()` block
BaseIdUsed(raw) == IF IsBlank(raw) THEN DEFAULT_BASE_ID ELSE raw

\* label = f"zakres od strony {start_page}"
Label(start_page) == LABEL_PREFIX \o Str(start_page)

\* RangeId removing one trailing '/' only
RangeId_OneSlash(base_id, i) ==
    (IF base_id # <<>> /\ base_id[Len(base_id)] = "/"
     THEN SubSeq(base_id, 1, Len(base_id) - 1) ELSE base_id) \o RANGE_INFIX \o Str(i)

\* range_id = f"{base_id.rstrip('/')}/range/r{i}"
RangeId(base_id, i) == RStripChar(base_id, "/") \o RANGE_INFIX \o Str(i)

\* EndPage with the `- 1` forgotten: a range runs into the next cover page
EndPage_NoMinusOne(cover_pages, i, tp) ==
    IF i + 1 < Len(cover_pages) THEN cover_pages[i + 2] ELSE tp

\* EndPage with every range running to the last page
EndPage_AlwaysLast(cover_pages, i, tp) == tp

\* end_page of iteration i (0-based) of the loop over cover_pages
EndPage(cover_pages, i, tp) ==
    IF i + 1 < Len(cover_pages) THEN cover_pages[i + 2] - 1 ELSE tp

\* '@id' in c
HasIdKey(c) == c.id.kind # "missing"

\* [c['@id'] for c in self.canvases[start_index:end_index] if '@id' in c]
RangeCanvasIds(cs, start_page, end_page) ==
    LET start_index == start_page - 1
        end_index == end_page
        kept == SelectSeq(Slice(cs, start_index, end_index), HasIdKey)
    IN [k \in 1..Len(kept) |-> kept[k].id]

\* the locals of iteration i (0-based) of the loop
RangeLocals(cover_pages, i, base_id, cs, tp) ==
    LET start_page == cover_pages[i + 1]
        end_page == EndPage(cover_pages, i, tp)
    IN [i |-> i,
        start_page |-> start_page,
        end_page |-> end_page,
        label |-> Label(start_page),
        range_id |-> RangeId(base_id, i),
        range_canvas_ids |-> RangeCanvasIds(cs, start_page, end_page)]

\* one record per iteration of `for i, start_page in enumerate(cover_pages)`
LoopRanges(cover_pages, base_id, cs, tp) ==
    [k \in 1..Len(cover_pages) |-> RangeLocals(cover_pages, k - 1, base_id, cs, tp)]

\* `if range_canvas_ids:` a non-empty list is true
IsKept(r) == r.range_canvas_ids # <<>>

RangeEntry(r) ==
    [id |-> r.range_id, type |-> "sc:Range", label |-> r.label,
     canvases |-> r.range_canvas_ids]

\* BuildStructures numbering the ranges by their position in the output
BuildStructures_Renumbered(cover_pages, base_id, cs, tp) ==
    LET kept == SelectSeq(LoopRanges(cover_pages, base_id, cs, tp), IsKept)
    IN [k \in 1..Len(kept) |->
           [RangeEntry(kept[k]) EXCEPT !.id = RangeId(base_id, k - 1)]]

\* the list `structures` when the loop ends
BuildStructures(cover_pages, base_id, cs, tp) ==
    LET kept == SelectSeq(LoopRanges(cover_pages, base_id, cs, tp), IsKept)
    IN [k \in 1..Len(kept) |-> RangeEntry(kept[k])]

\* SetStructures suffixing every range identifier with the number of ranges
\* the manifest had before: a counter a previous save moves
SetStructures_Counted(m, structures) ==
    [m EXCEPT !.structures =
        [present |-> TRUE,
         v |-> [k \in 1..Len(structures) |->
                   [structures[k] EXCEPT !.id = @ \o Str(Len(m.structures.v))]]]]

\* SetStructures appending to the ranges the manifest already has
SetStructures_Extend(m, structures) ==
    [m EXCEPT !.structures = [present |-> TRUE, v |-> @.v \o structures]]

\* self.manifest['structures'] = structures
SetStructures(m, structures) ==
    [m EXCEPT !.structures = [present |-> TRUE, v |-> structures]]

\* PopStructures writing an empty array instead of removing the key
PopStructures_EmptyArray(m) == [m EXCEPT !.structures = [present |-> TRUE, v |-> <<>>]]

\* self.manifest.pop('structures', None)
PopStructures(m) == [m EXCEPT !.structures = [present |-> FALSE, v |-> <<>>]]

-----------------------------------------------------------------------------
(* Documents a manifest URL can return *)

\* a canvas: its '@id' and the shape of its 'images' entry
Canvas(idv, img) == [id |-> idv, img |-> img]

\* the identifier of page k
PageId(k) == StrV(<<"p">> \o Str(k))

\* '@id' of the canvas of page k: absent, the empty string, or p<k>
CanvasIds(k) == {Missing, StrV(<<>>), PageId(k)}

\* the canvases page k can be in the editor specification
SaveKinds(k) == {Canvas(idv, "svc") : idv \in CanvasIds(k)}

\* every list of n canvases whose k-th is one of kinds[k]
CanvasLists(n, kinds) ==
    {cs \in [1..n -> UNION {kinds[k] : k \in 1..n}] : \A k \in 1..n : cs[k] \in kinds[k]}

\* '@id' of the manifest
BaseIds ==
    {Missing, NonStr, StrV(<<>>), StrV(<<" ">>), StrV(<<"a">>),
     StrV(<<"a", "/", "/">>), StrV(<<"/">>)}

\* a range entry already present in a fetched manifest
OLD_RANGE ==
    [id |-> <<"o", "l", "d">>, type |-> "sc:Range", label |-> <<"o", "l", "d">>,
     canvases |-> <<PageId(1)>>]

NoStructures == [present |-> FALSE, v |-> <<>>]

PriorStructures == {NoStructures, [present |-> TRUE, v |-> <<OLD_RANGE>>]}

\* the dict response.json() returns; `context` stands for every other key
Document(idv, cs, prior) ==
    [id |-> idv, sequences |-> cs, structures |-> prior, context |-> "iiif"]

Documents(maxn, Ids, kinds, Priors) ==
    {Document(idv, cs, prior) :
        idv \in Ids, cs \in UNION {CanvasLists(n, kinds) : n \in 0..maxn},
        prior \in Priors}

-----------------------------------------------------------------------------
(* The editor window *)

AllEnabled ==
    [fetch_btn |-> TRUE, analyze_btn |-> TRUE, url_entry |-> TRUE,
     start_entry |-> TRUE, end_entry |-> TRUE, edit_btn |-> TRUE]

\* no thread has been started
Idle == <<>>

\* page_data of a page the analysis recorded
PageData(page_num, is_cover, prob) ==
    [page_num |-> page_num, is_cover |-> is_cover, prob |-> prob]

\* results_map = {p['page_num']: p for p in self.analysis_results}; .get(page_num)
ResultsMapGet(results, page_num) ==
    LET hits == {k \in 1..Len(results) : results[k].page_num = page_num}
    IN IF hits = {} THEN None
       ELSE results[CHOOSE k \in hits : \A j \in hits : j <= k]

\* NewCheckVars reading the result of page p at position p of the results
NewCheckVars_ByPosition(cs, results) ==
    [page_num \in 1..Len(cs) |->
        IF page_num <= Len(results) THEN results[page_num].is_cover ELSE FALSE]

\* the check_vars open_editor builds: one BooleanVar per canvas
NewCheckVars(cs, results) ==
    [page_num \in 1..Len(cs) |->
        LET result_data == ResultsMapGet(results, page_num)
        IN IF result_data # None THEN result_data.is_cover ELSE FALSE]

RemoveAt(seq, e) == SubSeq(seq, 1, e - 1) \o SubSeq(seq, e + 1, Len(seq))

\* click on "Edytuj i Zapisz Manifest"
OpenEditor ==
    /\ widgets.edit_btn
    /\ Len(editors) < MaxEditors
    /\ IF analysis_results = <<>>
       THEN /\ last' = [op |-> "open_editor", log |-> <<"ERR_NO_ANALYSIS">>]
            /\ UNCHANGED editors
       ELSE /\ editors' = Append(editors, [check_vars |-> NewCheckVars(canvases, analysis_results)])
            /\ last' = [op |-> "open_editor", log |-> <<>>]
    /\ UNCHANGED <<scan, manifest, canvases, total_pages, analysis_results, widgets,
                   start_entry, end_entry, url_entry, worker, after_queue, progress>>

\* the user clicks the checkbox of page p in editor e
ToggleCheck(e, p) ==
    /\ e \in 1..Len(editors)
    /\ p \in DOMAIN editors[e].check_vars
    /\ editors' = [editors EXCEPT ![e].check_vars[p] = ~@]
    /\ UNCHANGED <<scan, manifest, canvases, total_pages, analysis_results, widgets,
                   start_entry, end_entry, url_entry, worker, after_queue, progress, last>>

\* "Odznacz wszystkie"
DeselectAll(e) ==
    /\ e \in 1..Len(editors)
    /\ editors' = [editors EXCEPT ![e].check_vars = [p \in DOMAIN @ |-> FALSE]]
    /\ last' = [op |-> "deselect_all", log |-> <<>>]
    /\ UNCHANGED <<scan, manifest, canvases, total_pages, analysis_results, widgets,
                   start_entry, end_entry, url_entry, worker, after_queue, progress>>

\* the user closes the editor window without saving
CloseEditor(e) ==
    /\ e \in 1..Len(editors)
    /\ editors' = RemoveAt(editors, e)
    /\ UNCHANGED <<scan, manifest, canvases, total_pages, analysis_results, widgets,
                   start_entry, end_entry, url_entry, worker, after_queue, progress, last>>

\* outcomes of filedialog.asksaveasfilename and of writing the file
Dialogs == {"ok", "cancel", "write_error"}

\* the part of save_manifest after the structure is generated
FinishSave(e, dialog, m, rec) ==
    /\ manifest' = m
    /\ editors' = RemoveAt(editors, e)
    /\ last' = [rec EXCEPT
                  !.outcome = dialog,
                  !.file = IF dialog = "ok" THEN m ELSE None,
                  !.log = @ \o <<CASE dialog = "ok" -> "SAVED"
                                   [] dialog = "cancel" -> "CANCELLED"
                                   [] OTHER -> "ERR_WRITE">>]

\* click on "Zapisz manifest.json" in editor e
SaveManifest(e, dialog) ==
    /\ e \in 1..Len(editors)
    /\ dialog \in Dialogs
    /\ LET check_vars == editors[e].check_vars
           cover_pages == CoverPages(check_vars)
           rec == [op |-> "save_manifest", outcome |-> "", pre |-> manifest,
                   cover_pages |-> cover_pages, total_pages |-> total_pages,
                   canvases |-> canvases, base_id |-> <<>>, ranges |-> <<>>,
                   file |-> None, log |-> <<>>]
       IN IF manifest = None
          THEN /\ last' = [rec EXCEPT !.outcome = "no_manifest",
                                      !.log = <<"ERR_NO_MANIFEST">>]
               /\ editors' = RemoveAt(editors, e)
               /\ UNCHANGED manifest
          ELSE IF cover_pages = <<>>
          THEN FinishSave(e, dialog, PopStructures(manifest),
                          [rec EXCEPT !.log = <<"INFO_NO_COVERS">>])
          ELSE LET got == GetBaseId(manifest)
               IN IF got.kind # "str"
                  THEN \* base_id.strip() raises AttributeError: the handler stops here
                       /\ last' = [rec EXCEPT !.outcome = "exception",
                                              !.log = <<"COVERS", "GENERATING">>]
                       /\ UNCHANGED <<manifest, editors>>
                  ELSE LET base_id == BaseIdUsed(got.s)
                           structures == BuildStructures(cover_pages, base_id, canvases, total_pages)
                       IN FinishSave(e, dialog, SetStructures(manifest, structures),
                             [rec EXCEPT
                                !.base_id = base_id,
                                !.ranges = LoopRanges(cover_pages, base_id, canvases, total_pages),
                                !.log = <<"COVERS", "GENERATING">>
                                        \o (IF IsBlank(got.s) THEN <<"WARN_NO_ID">> ELSE <<>>)
                                        \o <<"GENERATED">>])
    /\ UNCHANGED <<scan, canvases, total_pages, analysis_results, widgets,
                   start_entry, end_entry, url_entry, worker, after_queue, progress>>

-----------------------------------------------------------------------------
(* The editor specification: a document of up to MaxPages pages has been   *)
(* fetched and analysed, the editor window has just been opened, and the   *)
(* user works in it until it closes.                                       *)

InitSave ==
    \E doc \in Documents(MaxPages, BaseIds, [k \in 1..MaxPages |-> SaveKinds(k)], PriorStructures) :
        /\ doc.sequences # <<>>
        /\ manifest = doc
        /\ canvases = doc.sequences
        /\ total_pages = Len(doc.sequences)
        /\ analysis_results = [k \in 1..Len(doc.sequences) |-> PageData(k, FALSE, 0)]
        /\ editors = <<[check_vars |->
                         NewCheckVars(doc.sequences,
                             [k \in 1..Len(doc.sequences) |-> PageData(k, FALSE, 0)])]>>
        /\ widgets = AllEnabled
        /\ start_entry = Str(1)
        /\ end_entry = Str(Len(doc.sequences))
        /\ url_entry = <<"u">>
        /\ worker = Idle
        /\ after_queue = <<>>
        /\ progress = [shown |-> FALSE,
                        value |-> [num |-> 100 * Len(doc.sequences),
                                   den |-> Len(doc.sequences)]]
        /\ last = [op |-> "open_editor", log |-> <<>>]
        /\ scan = None

NextSave ==
    \/ \E e \in {1}, p \in 1..MaxPages : ToggleCheck(e, p)
    \/ \E e \in {1} : DeselectAll(e)
    \/ \E e \in {1} : CloseEditor(e)
    \/ \E e \in {1}, dialog \in Dialogs : SaveManifest(e, dialog)

SpecSave == InitSave /\ [][NextSave]_vars

-----------------------------------------------------------------------------
(* The main window: toggle_ui, the fetch and the analysis. start_fetch and  *)
(* start_analysis each start a thread; `worker` holds the threads started   *)
(* so far, each with its position ("done" once it has returned, "crashed"   *)
(* once an exception ended it). A thread takes its statements one step at a *)
(* time, and the display thread runs a whole handler between two of them.   *)

MaxWorkers == 3      \* threads started in a run of the program

\* thread w has neither returned nor been ended by an exception
Alive(w) == worker[w].pc \notin {"done", "crashed"}

\* the threads that are running
AliveWorkers == {w \in 1..Len(worker) : Alive(w)}

AllDisabled ==
    [fetch_btn |-> FALSE, analyze_btn |-> FALSE, url_entry |-> FALSE,
     start_entry |-> FALSE, end_entry |-> FALSE, edit_btn |-> FALSE]

\* the widget states after toggle_ui(state), which reads analysis_results
\* and total_pages as they are when it runs
ToggleUi(normal, results, tp) ==
    IF ~normal THEN AllDisabled
    ELSE [fetch_btn |-> TRUE,
          analyze_btn |-> tp # 0,
          url_entry |-> TRUE,
          start_entry |-> tp # 0,
          end_entry |-> tp # 0,
          edit_btn |-> results # <<>>]

\* the statements of toggle_ui(tk.NORMAL), which a thread that calls it runs
\* one at a time: the five widget.config of the loop, edit_btn disabled,
\* `if ... self.analysis_results`, `if ... self.total_pages == 0`
TOGGLE_STEPS == 8

\* the widget states after statement k of toggle_ui(tk.NORMAL)
ToggleUiStep(ws, k, results, tp) ==
    CASE k = 1 -> [ws EXCEPT !.fetch_btn = TRUE]
      [] k = 2 -> [ws EXCEPT !.analyze_btn = TRUE]
      [] k = 3 -> [ws EXCEPT !.url_entry = TRUE]
      [] k = 4 -> [ws EXCEPT !.start_entry = TRUE]
      [] k = 5 -> [ws EXCEPT !.end_entry = TRUE]
      [] k = 6 -> [ws EXCEPT !.edit_btn = FALSE]
      [] k = 7 -> IF results # <<>> THEN [ws EXCEPT !.edit_btn = TRUE] ELSE ws
      [] OTHER -> IF tp = 0
                  THEN [ws EXCEPT !.analyze_btn = FALSE, !.start_entry = FALSE,
                                  !.end_entry = FALSE]
                  ELSE ws

\* Entry.delete(0, END) then Entry.insert(0, text): a disabled ttk entry
\* ignores both
EntryReplace(enabled, old, text) == IF enabled THEN text ELSE old

\* int(text) for a text of digits; the empty text raises ValueError
IsIntText(text) == text # <<>>

DigitValue(ch) == CHOOSE d \in 0..9 : Digits[d + 1] = ch

RECURSIVE ParseInt(_)
ParseInt(text) ==
    IF Len(text) = 1 THEN DigitValue(text[1])
    ELSE 10 * ParseInt(SubSeq(text, 1, Len(text) - 1)) + DigitValue(text[Len(text)])

\* the canvases a page can have in the documents the main window fetches:
\* with an image service '@id', without an 'images' key, with 'images': []
GuiKinds(k) ==
    {Canvas(PageId(k), "svc"), Canvas(Missing, "none"), Canvas(PageId(k), "empty")}

GuiDocuments ==
    Documents(MaxFetchPages, {StrV(<<"a">>)}, [k \in 1..MaxFetchPages |-> GuiKinds(k)],
              {NoStructures})

\* what the user can type in the URL field: nothing, or a link
UrlTexts == {<<>>, <<"u">>}

\* what the user can type in the two range fields: nothing, or two numbers
\* from 1 to maxn
RangeTextsTo(maxs, maxe) ==
    {<<(<<>>), (<<>>)>>} \cup {<<Str(s), Str(e)>> : s \in 1..maxs, e \in 1..maxe}

\* the range texts of the GUI specification: ranges of the pages, and
\* numbers that are no range of a document of the model
RangeTexts == RangeTextsTo(MaxFetchPages, MaxFetchPages + 1)

\* the user types in the URL field
TypeUrl(text) ==
    /\ widgets.url_entry
    /\ url_entry' = text
    /\ UNCHANGED <<scan, manifest, canvases, total_pages, analysis_results, editors, widgets,
                   start_entry, end_entry, worker, after_queue, progress, last>>

\* the user types in the range fields
TypeRange(texts) ==
    /\ widgets.start_entry /\ widgets.end_entry
    /\ start_entry' = texts[1]
    /\ end_entry' = texts[2]
    /\ UNCHANGED <<scan, manifest, canvases, total_pages, analysis_results, editors, widgets,
                   url_entry, worker, after_queue, progress, last>>

\* thread w goes on as rec
Goto(w, rec) == [worker EXCEPT ![w] = rec]

\* thread w starts the statements of toggle_ui(tk.NORMAL)
CallToggleUi(w) == Goto(w, [pc |-> "toggle_ui", k |-> 1])

\* click on "Pobierz informacje"
StartFetch ==
    /\ widgets.fetch_btn
    /\ Len(worker) < MaxWorkers
    /\ widgets' = ToggleUi(FALSE, analysis_results, total_pages)
    /\ analysis_results' = <<>>
    /\ worker' = Append(worker, [pc |-> "fetch_request"])
    /\ last' = [op |-> "start_fetch", log |-> <<>>]
    /\ UNCHANGED <<scan, manifest, canvases, total_pages, editors, start_entry, end_entry,
                   url_entry, after_queue, progress>>

\* fetch_manifest up to `self.manifest = response.json()`; resp is None when
\* the request or the JSON decoding raises
FetchRequest(w, resp) ==
    /\ w \in 1..Len(worker)
    /\ worker[w].pc = "fetch_request"
    /\ IF Strip(url_entry) = <<>>
       THEN /\ resp = None
            /\ worker' = CallToggleUi(w)
            /\ last' = [op |-> "fetch_manifest", log |-> <<"ERR_EMPTY_URL">>]
            /\ UNCHANGED manifest
       ELSE IF resp = None
       THEN /\ worker' = Goto(w, [pc |-> "fetch_except"])
            /\ last' = [op |-> "fetch_manifest", log |-> <<"FETCHING">>]
            /\ UNCHANGED manifest
       ELSE /\ manifest' = resp
            /\ worker' = Goto(w, [pc |-> "fetch_canvases"])
            /\ last' = [op |-> "fetch_manifest", log |-> <<"FETCHING">>]
    /\ UNCHANGED <<scan, canvases, total_pages, analysis_results, editors, widgets,
                   start_entry, end_entry, url_entry, after_queue, progress>>

\* self.canvases = self.manifest.get('sequences', [{}])[0].get('canvases', [])
FetchCanvases(w) ==
    /\ w \in 1..Len(worker)
    /\ worker[w].pc = "fetch_canvases"
    /\ IF manifest = None
       THEN \* another fetch failed meanwhile: None has no .get, AttributeError
            /\ worker' = Goto(w, [pc |-> "fetch_except"])
            /\ UNCHANGED canvases
       ELSE /\ canvases' = manifest.sequences
            /\ worker' = Goto(w, [pc |-> "fetch_total"])
    /\ last' = [op |-> "fetch_manifest", log |-> <<>>]
    /\ UNCHANGED <<scan, manifest, total_pages, analysis_results, editors, widgets,
                   start_entry, end_entry, url_entry, after_queue, progress>>

\* self.total_pages = len(self.canvases) and the if/else that follows
FetchTotal(w) ==
    /\ w \in 1..Len(worker)
    /\ worker[w].pc = "fetch_total"
    /\ total_pages' = Len(canvases)
    /\ IF Len(canvases) = 0
       THEN /\ last' = [op |-> "fetch_manifest", log |-> <<"ERR_NO_PAGES">>]
            /\ UNCHANGED <<start_entry, end_entry>>
       ELSE /\ last' = [op |-> "fetch_manifest", log |-> <<"FOUND_PAGES">>]
            /\ start_entry' = EntryReplace(widgets.start_entry, start_entry, Str(1))
            /\ end_entry' = EntryReplace(widgets.end_entry, end_entry, Str(Len(canvases)))
    /\ worker' = CallToggleUi(w)
    /\ UNCHANGED <<scan, manifest, canvases, analysis_results, editors, widgets,
                   url_entry, after_queue, progress>>

\* except Exception: log, self.manifest = None
FetchExcept(w) ==
    /\ w \in 1..Len(worker)
    /\ worker[w].pc = "fetch_except"
    /\ manifest' = None
    /\ worker' = CallToggleUi(w)
    /\ last' = [op |-> "fetch_manifest", log |-> <<"ERR_FETCH">>]
    /\ UNCHANGED <<scan, canvases, total_pages, analysis_results, editors, widgets,
                   start_entry, end_entry, url_entry, after_queue, progress>>

\* self.toggle_ui(tk.NORMAL) in fetch_manifest (the `finally`, and the
\* branch of the empty link): thread w runs its next statement, and ends
\* after the last
FetchFinally(w) ==
    /\ w \in 1..Len(worker)
    /\ worker[w].pc = "toggle_ui"
    /\ widgets' = ToggleUiStep(widgets, worker[w].k, analysis_results, total_pages)
    /\ worker' = IF worker[w].k = TOGGLE_STEPS THEN Goto(w, [pc |-> "done"])
                 ELSE Goto(w, [pc |-> "toggle_ui", k |-> worker[w].k + 1])
    /\ last' = [op |-> "fetch_manifest", log |-> <<>>]
    /\ UNCHANGED <<scan, manifest, canvases, total_pages, analysis_results, editors,
                   start_entry, end_entry, url_entry, after_queue, progress>>

\* StartAnalysis without the test `start_page > end_page`
StartAnalysis_NoOrderTest ==
    /\ widgets.analyze_btn
    /\ Len(worker) < MaxWorkers
    /\ IF ~(IsIntText(start_entry) /\ IsIntText(end_entry))
       THEN /\ last' = [op |-> "start_analysis", log |-> <<"ERR_NOT_A_NUMBER">>]
            /\ UNCHANGED <<widgets, worker, progress>>
       ELSE LET start_page == ParseInt(start_entry)
                end_page == ParseInt(end_entry)
            IN IF ~(1 <= start_page /\ start_page <= total_pages)
               THEN /\ last' = [op |-> "start_analysis", log |-> <<"ERR_START">>]
                    /\ UNCHANGED <<widgets, worker, progress>>
               ELSE IF ~(1 <= end_page /\ end_page <= total_pages)
               THEN /\ last' = [op |-> "start_analysis", log |-> <<"ERR_END">>]
                    /\ UNCHANGED <<widgets, worker, progress>>
               ELSE /\ widgets' = ToggleUi(FALSE, analysis_results, total_pages)
                    /\ progress' = [shown |-> TRUE, value |-> [num |-> 0, den |-> 1]]
                    /\ worker' = Append(worker,
                                    [pc |-> "analysis_begin", start_page |-> start_page,
                                     end_page |-> end_page])
                    /\ last' = [op |-> "start_analysis", log |-> <<>>]
    /\ UNCHANGED <<scan, manifest, canvases, total_pages, analysis_results, editors,
                   start_entry, end_entry, url_entry, after_queue>>

\* click on "Rozpocznij Analizę"
StartAnalysis ==
    /\ widgets.analyze_btn
    /\ Len(worker) < MaxWorkers
    /\ IF ~(IsIntText(start_entry) /\ IsIntText(end_entry))
       THEN /\ last' = [op |-> "start_analysis", log |-> <<"ERR_NOT_A_NUMBER">>]
            /\ UNCHANGED <<widgets, worker, progress>>
       ELSE LET start_page == ParseInt(start_entry)
                end_page == ParseInt(end_entry)
            IN IF ~(1 <= start_page /\ start_page <= total_pages)
               THEN /\ last' = [op |-> "start_analysis", log |-> <<"ERR_START">>]
                    /\ UNCHANGED <<widgets, worker, progress>>
               ELSE IF ~(1 <= end_page /\ end_page <= total_pages)
               THEN /\ last' = [op |-> "start_analysis", log |-> <<"ERR_END">>]
                    /\ UNCHANGED <<widgets, worker, progress>>
               ELSE IF start_page > end_page
               THEN /\ last' = [op |-> "start_analysis", log |-> <<"ERR_ORDER">>]
                    /\ UNCHANGED <<widgets, worker, progress>>
               ELSE /\ widgets' = ToggleUi(FALSE, analysis_results, total_pages)
                    /\ progress' = [shown |-> TRUE, value |-> [num |-> 0, den |-> 1]]
                    /\ worker' = Append(worker,
                                    [pc |-> "analysis_begin", start_page |-> start_page,
                                     end_page |-> end_page])
                    /\ last' = [op |-> "start_analysis", log |-> <<>>]
    /\ UNCHANGED <<scan, manifest, canvases, total_pages, analysis_results, editors,
                   start_entry, end_entry, url_entry, after_queue>>

\* run_analysis up to the loop: the subset is sliced and the results emptied
AnalysisBegin(w) ==
    /\ w \in 1..Len(worker)
    /\ worker[w].pc = "analysis_begin"
    /\ analysis_results' = <<>>
    /\ worker' = Goto(w, [pc |-> "analysis_loop", start_page |-> worker[w].start_page,
                          end_page |-> worker[w].end_page,
                          canvases_subset |->
                              Slice(canvases, worker[w].start_page - 1, worker[w].end_page),
                          i |-> 0])
    /\ last' = [op |-> "run_analysis", step |-> "begin", log |-> <<"ANALYSIS_START">>]
    /\ UNCHANGED <<scan, manifest, canvases, total_pages, editors, widgets, start_entry,
                   end_entry, url_entry, after_queue, progress>>

\* what fetching and classifying the image of a page can give
PageOutcomes == {"cover", "not_cover", "classify_error", "fetch_error"}

\* the 'prob' classify returns, in percent
CLASSIFY_PROB == 90

\* what iteration of the loop does with a canvas: "crash" (IndexError on
\* 'images': []), "no_url", or what the network and the classifier give
PageOutcome(canvas, outcome) ==
    CASE canvas.img = "empty" -> "crash"
      [] canvas.img = "none" -> "no_url"
      [] OTHER -> outcome

\* page_data when it is appended
PageDataOf(page_num, outcome) ==
    IF outcome \in {"cover", "not_cover"}
    THEN PageData(page_num, outcome = "cover", CLASSIFY_PROB)
    ELSE PageData(page_num, FALSE, 0)

\* ResultsAfterPage dropping the pages that gave no classification
ResultsAfterPage_SkipFailed(results, page_num, outcome) ==
    IF outcome \in {"cover", "not_cover"}
    THEN Append(results, PageDataOf(page_num, outcome)) ELSE results

\* self.analysis_results.append(page_data), on either path
ResultsAfterPage(results, page_num, outcome) ==
    Append(results, PageDataOf(page_num, outcome))

\* one iteration of the loop of run_analysis
AnalysisPage(w, outcome) ==
    /\ w \in 1..Len(worker)
    /\ worker[w].pc = "analysis_loop"
    /\ worker[w].i < Len(worker[w].canvases_subset)
    /\ LET i == worker[w].i
           page_num == worker[w].start_page + i
           total == Len(worker[w].canvases_subset)
           got == PageOutcome(worker[w].canvases_subset[i + 1], outcome)
           rec == [op |-> "run_analysis", step |-> "page", page_num |-> page_num,
                   i |-> i, total |-> total, outcome |-> got, log |-> <<>>]
       IN /\ last' = IF got = "fetch_error" THEN [rec EXCEPT !.log = <<"INFO_SKIP">>]
                     ELSE rec
          /\ IF got = "crash"
             THEN \* the exception is not caught: the thread ends
                  /\ worker' = Goto(w, [pc |-> "crashed"])
                  /\ UNCHANGED <<analysis_results, after_queue>>
             ELSE /\ analysis_results' = ResultsAfterPage(analysis_results, page_num, got)
                  /\ worker' = Goto(w, [worker[w] EXCEPT !.i = i + 1])
                  /\ IF got = "no_url"
                     THEN UNCHANGED after_queue    \* `continue`
                     ELSE after_queue' = Append(after_queue,
                              [fn |-> "update_progress",
                               value |-> [num |-> (i + 1) * 100, den |-> total]])
    /\ UNCHANGED <<scan, manifest, canvases, total_pages, editors, widgets, start_entry,
                   end_entry, url_entry, progress>>

\* self.root.after(0, self.show_summary): run_analysis returns
AnalysisEnd(w) ==
    /\ w \in 1..Len(worker)
    /\ worker[w].pc = "analysis_loop"
    /\ worker[w].i = Len(worker[w].canvases_subset)
    /\ after_queue' = Append(after_queue, [fn |-> "show_summary"])
    /\ worker' = Goto(w, [pc |-> "done"])
    /\ last' = [op |-> "run_analysis", step |-> "end",
                start_page |-> worker[w].start_page, end_page |-> worker[w].end_page,
                log |-> <<>>]
    /\ UNCHANGED <<scan, manifest, canvases, total_pages, analysis_results, editors, widgets,
                   start_entry, end_entry, url_entry, progress>>

\* the display thread runs the oldest callback posted with root.after
RunAfter ==
    /\ after_queue # <<>>
    /\ after_queue' = Tail(after_queue)
    /\ IF Head(after_queue).fn = "update_progress"
       THEN /\ progress' = [progress EXCEPT !.value = Head(after_queue).value]
            /\ last' = [op |-> "update_progress", log |-> <<>>]
            /\ UNCHANGED widgets
       ELSE /\ progress' = [progress EXCEPT !.shown = FALSE]
            /\ widgets' = ToggleUi(TRUE, analysis_results, total_pages)
            /\ last' = [op |-> "show_summary",
                        log |-> IF \E k \in 1..Len(analysis_results) : analysis_results[k].is_cover
                                THEN <<"SUMMARY", "COVERS_FOUND", "DONE">>
                                ELSE <<"SUMMARY", "NO_COVERS", "DONE">>]
    /\ UNCHANGED <<scan, manifest, canvases, total_pages, analysis_results, editors,
                   start_entry, end_entry, url_entry, worker>>

\* the state __init__ leaves
Init ==
    /\ manifest = None
    /\ canvases = <<>>
    /\ total_pages = 0
    /\ analysis_results = <<>>
    /\ editors = <<>>
    /\ widgets = [fetch_btn |-> TRUE, analyze_btn |-> FALSE, url_entry |-> TRUE,
                  start_entry |-> FALSE, end_entry |-> FALSE, edit_btn |-> FALSE]
    /\ start_entry = <<>>
    /\ end_entry = <<>>
    /\ url_entry = <<>>
    /\ worker = Idle
    /\ after_queue = <<>>
    /\ progress = [shown |-> FALSE, value |-> [num |-> 0, den |-> 1]]
    /\ last = [op |-> "init", log |-> <<"HINT_PASTE_LINK", "HINT_FIRST_RUN">>]
    /\ scan = None

Next ==
    \/ \E text \in UrlTexts : TypeUrl(text)
    \/ \E texts \in RangeTexts : TypeRange(texts)
    \/ StartFetch
    \/ \E w \in 1..MaxWorkers, resp \in GuiDocuments \cup {None} : FetchRequest(w, resp)
    \/ \E w \in 1..MaxWorkers : FetchCanvases(w)
    \/ \E w \in 1..MaxWorkers : FetchTotal(w)
    \/ \E w \in 1..MaxWorkers : FetchExcept(w)
    \/ \E w \in 1..MaxWorkers : FetchFinally(w)
    \/ StartAnalysis
    \/ \E w \in 1..MaxWorkers : AnalysisBegin(w)
    \/ \E w \in 1..MaxWorkers, outcome \in PageOutcomes : AnalysisPage(w, outcome)
    \/ \E w \in 1..MaxWorkers : AnalysisEnd(w)
    \/ RunAfter
    \/ OpenEditor
    \/ \E e \in 1..MaxEditors, p \in 1..MaxFetchPages : ToggleCheck(e, p)
    \/ \E e \in 1..MaxEditors : DeselectAll(e)
    \/ \E e \in 1..MaxEditors : CloseEditor(e)
    \/ \E e \in 1..MaxEditors, dialog \in Dialogs : SaveManifest(e, dialog)

Spec == Init /\ [][Next]_vars

-----------------------------------------------------------------------------
(* The analysis specification: a document of up to MaxPages pages has been *)
(* fetched (the thread of the fetch has returned), the range fields are     *)
(* still empty, and the user types ranges and runs analyses.                *)

InitAnalysis ==
    \E doc \in Documents(MaxPages, {StrV(<<"a">>)}, [k \in 1..MaxPages |-> GuiKinds(k)],
                         {NoStructures}) :
        /\ doc.sequences # <<>>
        /\ manifest = doc
        /\ canvases = doc.sequences
        /\ total_pages = Len(doc.sequences)
        /\ analysis_results = <<>>
        /\ editors = <<>>
        /\ widgets = ToggleUi(TRUE, <<>>, Len(doc.sequences))
        /\ start_entry = <<>>
        /\ end_entry = <<>>
        /\ url_entry = <<"u">>
        /\ worker = <<[pc |-> "done"]>>
        /\ after_queue = <<>>
        /\ progress = [shown |-> FALSE, value |-> [num |-> 0, den |-> 1]]
        /\ last = [op |-> "fetch_manifest", log |-> <<>>]
        /\ scan = None

NextAnalysis ==
    \/ \E texts \in RangeTextsTo(MaxPages, MaxPages) : TypeRange(texts)
    \/ StartAnalysis
    \/ \E w \in 1..MaxWorkers : AnalysisBegin(w)
    \/ \E w \in 1..MaxWorkers, outcome \in PageOutcomes : AnalysisPage(w, outcome)
    \/ \E w \in 1..MaxWorkers : AnalysisEnd(w)
    \/ RunAfter

SpecAnalysis == InitAnalysis /\ [][NextAnalysis]_vars

-----------------------------------------------------------------------------
(* Vocabulary of the properties of save_manifest *)

\* the handler that ran last is a save_manifest that generated a structure
SaveBuilt ==
    /\ last.op = "save_manifest"
    /\ last.outcome \in Dialogs
    /\ last.cover_pages # <<>>

\* cp is strictly ascending with every value in 1..tp
ValidCovers(cp, tp) ==
    /\ \A k \in 1..Len(cp) : cp[k] \in 1..tp
    /\ \A k \in 1..(Len(cp) - 1) : cp[k] < cp[k + 1]

\* the save saw a valid cover list and a page list of total_pages pages
SaveValid ==
    /\ SaveBuilt
    /\ ValidCovers(last.cover_pages, last.total_pages)
    /\ Len(last.canvases) = last.total_pages

\* the last page of the range of the k-th cover (k from 1), as the spec states it
SpecEnd(cp, k, tp) == IF k < Len(cp) THEN cp[k + 1] - 1 ELSE tp

\* the pages a..b of the manifest, in manifest order
Pages(cs, a, b) == [k \in 1..(b - a + 1) |-> cs[a + k - 1]]

\* the canvas has a non-empty identifier
HasNonEmptyId(c) == c.id.kind = "str" /\ c.id.s # <<>>

IdsOf(cs) == [k \in 1..Len(cs) |-> cs[k].id]

\* the length of s without its trailing '/': the prefix of that length does
\* not end in '/' and is followed in s by '/' only
StrippedLen(s) ==
    CHOOSE n \in 0..Len(s) :
        /\ n > 0 => s[n] # "/"
        /\ \A k \in (n + 1)..Len(s) : s[k] = "/"

-----------------------------------------------------------------------------
(* Properties of save_manifest, checked under SpecSave *)

\* C1: for a strictly ascending cover list within 1..total_pages over pages
\* that all have their identifier, the save writes one range per cover, in
\* order; the i-th starts at cover i, ends one page before the next cover
\* (at total_pages for the last) and lists exactly the identifiers of its
\* pages in manifest order.
C1_RangePerCover ==
    (SaveValid /\ \A k \in 1..Len(last.canvases) : last.canvases[k].id = PageId(k))
    => LET cp == last.cover_pages
           tp == last.total_pages
           out == manifest.structures
       IN /\ out.present
          /\ Len(out.v) = Len(cp)
          /\ \A k \in 1..Len(cp) :
                /\ last.ranges[k].start_page = cp[k]
                /\ last.ranges[k].end_page = SpecEnd(cp, k, tp)
                /\ out.v[k].canvases =
                      [j \in 1..(SpecEnd(cp, k, tp) - cp[k] + 1) |-> PageId(cp[k] + j - 1)]

\* C1 witness: three covers were saved over pages that all have identifiers
C1_Witness ==
    /\ SaveValid
    /\ \A k \in 1..Len(last.canvases) : last.canvases[k].id = PageId(k)
    /\ Len(last.cover_pages) = 3
    /\ Len(manifest.structures.v) = 3

\* C2: for a valid cover list the [start, end] intervals of the loop are
\* non-empty, contiguous and pairwise disjoint, every page from the first
\* cover to total_pages lies in exactly one of them and no page before the
\* first cover lies in any; a single cover c gives the one interval
\* [c, total_pages].
C2_IntervalsTile ==
    SaveValid
    => LET cp == last.cover_pages
           tp == last.total_pages
           rs == last.ranges
           In(p, r) == r.start_page <= p /\ p <= r.end_page
       IN /\ Len(rs) = Len(cp)
          /\ \A k \in 1..Len(rs) : rs[k].start_page <= rs[k].end_page
          /\ \A k \in 1..(Len(rs) - 1) : rs[k + 1].start_page = rs[k].end_page + 1
          /\ \A p \in 1..tp :
                Cardinality({k \in 1..Len(rs) : In(p, rs[k])}) = IF p >= cp[1] THEN 1 ELSE 0
          /\ \A k \in 1..Len(rs) : rs[k].start_page >= cp[1] /\ rs[k].end_page <= tp
          /\ Len(cp) = 1 => (rs[1].start_page = cp[1] /\ rs[1].end_page = tp)

\* C2 witness: two covers or more were saved and the first is not page 1
C2_Witness ==
    /\ SaveValid
    /\ Len(last.cover_pages) >= 2
    /\ last.cover_pages[1] > 1

\* C3: a save with no page checked raises nothing and leaves the manifest,
\* in memory and in the file it writes, without a 'structures' key.
C3_NoCoversNoStructures ==
    (last.op = "save_manifest" /\ last.pre # None /\ last.cover_pages = <<>>)
    => /\ last.outcome \in Dialogs
       /\ ~manifest.structures.present
       /\ last.outcome = "ok" => (last.file # None /\ ~last.file.structures.present)

\* C3 witness: a manifest that had 'structures' and an '@id' that is no
\* string was saved to a file with no page checked
C3_Witness ==
    /\ last.op = "save_manifest"
    /\ last.pre # None
    /\ last.cover_pages = <<>>
    /\ last.pre.structures.present
    /\ last.pre.id = NonStr
    /\ last.outcome = "ok"

\* C4: the canvases of every range are exactly the identifiers of the pages
\* of [start, end] that have a non-empty identifier, in manifest order, and
\* the boundaries do not depend on the identifiers.
C4_OnlyNonEmptyIds ==
    SaveValid
    => \A k \in 1..Len(last.ranges) :
          LET r == last.ranges[k]
          IN /\ r.start_page = last.cover_pages[k]
             /\ r.end_page = SpecEnd(last.cover_pages, k, last.total_pages)
             /\ r.range_canvas_ids =
                   IdsOf(SelectSeq(Pages(last.canvases, r.start_page, r.end_page),
                                   HasNonEmptyId))

\* the indices (from 1) of the covers whose range has a page with an '@id' key
SurvivingCovers ==
    {k \in 1..Len(last.cover_pages) :
        \E p \in last.cover_pages[k]..SpecEnd(last.cover_pages, k, last.total_pages) :
            HasIdKey(last.canvases[p])}

C6_LabelAndId ==
    SaveBuilt
    => LET b == last.base_id
           n == StrippedLen(b)
           rs == last.ranges
       IN /\ \A k \in 1..Len(rs) :
                /\ rs[k].label = LABEL_PREFIX \o Str(last.cover_pages[k])
                /\ rs[k].range_id = SubSeq(b, 1, n) \o RANGE_INFIX \o Str(k - 1)
                /\ n > 0 => rs[k].range_id[n] # "/"
                /\ rs[k].range_id[n + 1] = "/"
          /\ \A j, k \in 1..Len(rs) : rs[j].range_id = rs[k].range_id => j = k
          /\ \A j \in 1..Len(manifest.structures.v) :
                \E k \in 1..Len(rs) :
                    /\ manifest.structures.v[j].id = rs[k].range_id
                    /\ manifest.structures.v[j].label = rs[k].label

\* C6 witness: two covers were saved under a base identifier ending in '//'
C6_Witness ==
    /\ SaveBuilt
    /\ Len(last.cover_pages) >= 2
    /\ Len(last.base_id) >= 2
    /\ last.base_id[Len(last.base_id)] = "/"
    /\ last.base_id[Len(last.base_id) - 1] = "/"
    /\ Len(manifest.structures.v) >= 2

\* the '@id' of the manifest is missing, empty or only whitespace
IdAbsentOrBlank(m) == m.id.kind = "missing" \/ (m.id.kind = "str" /\ Strip(m.id.s) = <<>>)

\* C7: a save with a cover selected on a manifest whose '@id' is missing,
\* empty or blank builds the range identifiers from the default base, logs
\* the warning and goes on to the end.
C7_DefaultBaseWithWarning ==
    (last.op = "save_manifest" /\ last.pre # None /\ last.cover_pages # <<>>
        /\ IdAbsentOrBlank(last.pre))
    => /\ last.outcome \in Dialogs
       /\ last.base_id = DEFAULT_BASE_ID
       /\ \E k \in 1..Len(last.log) : last.log[k] = "WARN_NO_ID"

\* C10: a save changes no key of the manifest but 'structures', and when
\* covers are selected every entry of 'structures' afterwards is a range
\* built by this save, none being an entry the manifest had before.
C10_OnlyStructuresReplaced ==
    (last.op = "save_manifest" /\ last.pre # None)
    => /\ DOMAIN manifest = DOMAIN last.pre
       /\ \A key \in DOMAIN manifest \ {"structures"} : manifest[key] = last.pre[key]
       /\ last.outcome = "exception" => manifest = last.pre
       /\ SaveBuilt =>
             /\ manifest.structures.present
             /\ Len(manifest.structures.v) <= Len(last.ranges)
             /\ \A j \in 1..Len(manifest.structures.v) :
                   \E k \in 1..Len(last.ranges) :
                       manifest.structures.v[j] = RangeEntry(last.ranges[k])

\* C10 witness: covers were saved on a manifest that already had ranges
C10_Witness ==
    /\ SaveBuilt
    /\ last.pre.structures.present
    /\ last.pre.structures.v # <<>>
    /\ manifest.structures.v # <<>>

-----------------------------------------------------------------------------
(* Properties of save_manifest in the main window, checked under Spec *)

\* C8: a save whose cover list has a page outside 1..total_pages, or is not
\* strictly ascending, signals an error instead of going on to write ranges.
C8_InvalidCoversRejected ==
    (last.op = "save_manifest" /\ last.pre # None /\ last.cover_pages # <<>>
        /\ ~ValidCovers(last.cover_pages, last.total_pages))
    => last.outcome \notin Dialogs

\* C9: whatever the user did before, the cover list a save builds ranges
\* from is strictly ascending, without duplicates, and within 1..total_pages
\* of the manifest being saved.
C9_CoversWithinPages ==
    SaveBuilt => ValidCovers(last.cover_pages, last.total_pages)

-----------------------------------------------------------------------------
(* Saving twice: open_editor was clicked twice on an analysed document, so  *)
(* two editor windows are open, each with its own check_vars; the user      *)
(* checks pages in both and saves from one and then from the other.         *)

\* the canvases page k can be in the documents saved twice
ResaveKinds(k) == {Canvas(Missing, "svc"), Canvas(PageId(k), "svc")}

\* '@id' of the documents saved twice
ResaveIds == {Missing, StrV(<<"a", "/">>)}

InitResave ==
    \E doc \in Documents(MaxPages, ResaveIds, [k \in 1..MaxPages |-> ResaveKinds(k)],
                         PriorStructures) :
        /\ doc.sequences # <<>>
        /\ manifest = doc
        /\ canvases = doc.sequences
        /\ total_pages = Len(doc.sequences)
        /\ analysis_results = [k \in 1..Len(doc.sequences) |-> PageData(k, FALSE, 0)]
        /\ editors = [e \in 1..2 |->
                        [check_vars |->
                            NewCheckVars(doc.sequences,
                                [k \in 1..Len(doc.sequences) |-> PageData(k, FALSE, 0)])]]
        /\ widgets = AllEnabled
        /\ start_entry = Str(1)
        /\ end_entry = Str(Len(doc.sequences))
        /\ url_entry = <<"u">>
        /\ worker = Idle
        /\ after_queue = <<>>
        /\ progress = [shown |-> FALSE,
                        value |-> [num |-> 100 * Len(doc.sequences),
                                   den |-> Len(doc.sequences)]]
        /\ last = [op |-> "open_editor", log |-> <<>>]
        /\ scan = None

NextResave ==
    \/ \E e \in 1..2, p \in 1..MaxPages : ToggleCheck(e, p)
    \/ \E e \in 1..2, dialog \in Dialogs : SaveManifest(e, dialog)

SpecResave == InitResave /\ [][NextResave]_vars

\* the handler that ran last before the step and the one that ran last after
\* it are saves that went to their end on the same '@id', canvases,
\* total_pages and checked pages
SameSaveInputs ==
    /\ last.op = "save_manifest" /\ last.outcome \in Dialogs
    /\ last'.op = "save_manifest" /\ last'.outcome \in Dialogs
    /\ last'.pre.id = last.pre.id
    /\ last'.canvases = last.canvases
    /\ last'.total_pages = last.total_pages
    /\ last'.cover_pages = last.cover_pages

\* C11: a save that follows a save with the same manifest '@id', canvases,
\* total_pages and checked pages leaves the same 'structures' (identifiers,
\* labels, canvases and order) and goes through the same ranges as the first,
\* whatever 'structures' held before the first save and whatever the first
\* save wrote.
C11_SaveTwiceSame ==
    [][SameSaveInputs =>
          /\ manifest'.structures = manifest.structures
          /\ last'.ranges = last.ranges
          /\ last'.base_id = last.base_id]_vars

\* C11 witness: a save ran on the manifest an earlier save had written two
\* ranges or more into, and wrote the same ranges again
C11_Witness ==
    /\ SaveBuilt
    /\ last.pre.structures.present
    /\ Len(last.pre.structures.v) >= 2
    /\ \A k \in 1..Len(last.pre.structures.v) : last.pre.structures.v[k] # OLD_RANGE
    /\ manifest.structures.v = last.pre.structures.v

-----------------------------------------------------------------------------
(* The command-line programs. Each scans canvases[:limit_stron] page by     *)
(* page; what the manifest and the network give for a page, and what CLIP   *)
(* and OCR return on its image, are inputs fixed when the scan starts.      *)

MaxScanPages == 3    \* pages of a command-line scan
MaxBatch == 2        \* largest rozmiar_wsadu of a batched scan

\* the desktop program is not running
GuiAbsent ==
    /\ manifest = None /\ canvases = <<>> /\ total_pages = 0
    /\ analysis_results = <<>> /\ editors = <<>> /\ widgets = None
    /\ start_entry = <<>> /\ end_entry = <<>> /\ url_entry = <<>>
    /\ worker = None /\ after_queue = <<>> /\ progress = None /\ last = None

\* what a classifier gives on an image: "cover" (CLIP chose the cover
\* description, OCR found large text), "plain", or "error" (the dict with
\* the key 'błąd')
Verdicts == {"cover", "plain", "error"}

\* an image that was downloaded: what CLIP and OCR return on it, and the
\* probability (in percent) of the description CLIP chose
PageImage(clip, ocr, p) == [src |-> "image", clip |-> clip, ocr |-> ocr, p |-> p]

\* a page of the scan: the canvas has no image service '@id', its 'images'
\* is the empty list, the download raises RequestException, or an image
ScanPageKinds(Probs) ==
    {[src |-> "no_url"], [src |-> "images_empty"], [src |-> "fetch_error"]}
    \cup {PageImage(clip, ocr, p) : clip \in Verdicts, ocr \in Verdicts, p \in Probs}

\* every list of 1..maxn pages
ScanInputs(maxn, Kinds) == UNION {[1..n -> Kinds] : n \in 1..maxn}

\* the page numbers (i + 1) of a result list
Numery(lista) == {lista[k].numer_strony : k \in 1..Len(lista)}

\* the final decision with only the visual classifier consulted
JestOkladka_ClipOnly(clip, ocr) == clip = "cover"

\* `if analiza_ocr['znaleziono_duzy_tekst']: ... elif
\* ocena_clip['jest_okladka_wg_clip']: ...`: jest_okladka
JestOkladka(clip, ocr) == ocr = "cover" \/ clip = "cover"

\* the three result lists after the classifier results of page numer with
\* image page are collected; clip_failed: the CLIP result has the key 'błąd'
Zbierz(s, numer, page, clip_failed) ==
    IF clip_failed \/ page.ocr = "error"
    THEN s    \* `continue`
    ELSE LET id == [numer_strony |-> numer]
         IN [s EXCEPT
               !.wyniki_clip_okladki =
                   IF page.clip = "cover" THEN Append(@, id) ELSE @,
               !.wyniki_ocr_okladki =
                   IF page.ocr = "cover" THEN Append(@, id) ELSE @,
               !.wyniki_koncowe_okladki =
                   IF JestOkladka(page.clip, page.ocr) THEN Append(@, id) ELSE @]

\* the locals of analizuj_manifest when the loop starts
ScanStart(prog, pages, rozmiar_wsadu) ==
    [prog |-> prog, pages |-> pages, rozmiar_wsadu |-> rozmiar_wsadu,
     i |-> 0, pc |-> "loop", batch_danych |-> <<>>, wsady |-> <<>>,
     wyniki_koncowe_okladki |-> <<>>, wyniki_clip_okladki |-> <<>>,
     wyniki_ocr_okladki |-> <<>>]

\* the locals after the iteration of the loop that starts with the locals s
HybridStep(s) ==
    LET page == s.pages[s.i + 1]
        next == [s EXCEPT !.i = @ + 1]
    IN CASE page.src = "images_empty" -> [s EXCEPT !.pc = "crashed"]
         [] page.src \in {"no_url", "fetch_error"} -> next
         [] OTHER -> Zbierz(next, s.i + 1, page, page.clip = "error")

\* ocr_and_clip.py, laion_and_ocr!.py: one iteration of the loop
HybridPage ==
    /\ scan.prog = "hybrid" /\ scan.pc = "loop" /\ scan.i < Len(scan.pages)
    /\ scan' = HybridStep(scan)
    /\ UNCHANGED gui_vars

\* the locals when the loop that starts with the locals s is over, or has
\* ended with an exception
RECURSIVE HybridRun(_)
HybridRun(s) ==
    IF s.pc = "loop" /\ s.i < Len(s.pages) THEN HybridRun(HybridStep(s)) ELSE s

\* the loop is over: the summary is printed
ScanSummary ==
    /\ scan.prog \in {"hybrid", "batch"}
    /\ scan.pc = "loop" /\ scan.i = Len(scan.pages)
    /\ scan' = [scan EXCEPT !.pc = "done"]
    /\ UNCHANGED gui_vars

\* `for j, dane in enumerate(batch_danych)`: the results of a batch, item
\* by item
RECURSIVE ZbierzWsad(_, _, _)
ZbierzWsad(s, batch, clip_failed) ==
    IF batch = <<>> THEN s
    ELSE ZbierzWsad(Zbierz(s, Head(batch).numer_strony, s.pages[Head(batch).numer_strony],
                           clip_failed),
                    Tail(batch), clip_failed)

\* klasyfikuj_obraz_clip_wsadowo raises inside its try when CLIP fails on an
\* image of the batch, and every entry of the list it returns is the error
WsadFailed(s, batch) ==
    \E k \in 1..Len(batch) : s.pages[batch[k].numer_strony].clip = "error"

\* the `if len(batch_danych) == rozmiar_wsadu or i == len(...) - 1:` block
\* at the end of iteration i with the batch as it is then
Flush(s, i, batch) ==
    IF Len(batch) = s.rozmiar_wsadu \/ i = Len(s.pages) - 1
    THEN [ZbierzWsad(s, batch, WsadFailed(s, batch)) EXCEPT
             !.wsady = Append(@, batch), !.batch_danych = <<>>]
    ELSE [s EXCEPT !.batch_danych = batch]

\* laion_grupowanie_zdjec.py: one iteration of the loop
BatchPage ==
    /\ scan.prog = "batch" /\ scan.pc = "loop" /\ scan.i < Len(scan.pages)
    /\ LET i == scan.i
           page == scan.pages[i + 1]
           next == [scan EXCEPT !.i = @ + 1]
       IN scan' =
            CASE page.src = "images_empty" -> [scan EXCEPT !.pc = "crashed"]
              [] page.src = "no_url" -> next    \* `continue`
              [] page.src = "fetch_error" -> Flush(next, i, scan.batch_danych)
              [] OTHER ->
                   Flush(next, i, Append(scan.batch_danych, [numer_strony |-> i + 1]))
    /\ UNCHANGED gui_vars

\* the probability CLIP reports in the hybrid scans, which do not sort by it
HYBRID_PROBS == {90}

InitHybrid ==
    /\ GuiAbsent
    /\ \E pages \in ScanInputs(MaxScanPages, ScanPageKinds(HYBRID_PROBS)) :
          \/ scan = ScanStart("hybrid", pages, 0)
          \/ \E rozmiar_wsadu \in 1..MaxBatch : scan = ScanStart("batch", pages, rozmiar_wsadu)

NextHybrid ==
    \/ HybridPage
    \/ BatchPage
    \/ ScanSummary

SpecHybrid == InitHybrid /\ [][NextHybrid]_vars

-----------------------------------------------------------------------------
(* laion.py (analizuj_strony) and file4.py (analizuj_manifest): one         *)
(* classifier, chosen by metoda_analizy in file4.py and CLIP in laion.py.   *)

\* the probabilities (in percent) CLIP reports in these scans
SINGLE_PROBS == {60, 90}

\* wynik_analizy of a downloaded page: the verdict of the chosen method and
\* its 'prawdopodobienstwo', which analizuj_strukture_tekstu_ocr sets to 1.0
\* for a cover and 0.0 otherwise
WynikAnalizy(metoda, page) ==
    IF metoda = "clip"
    THEN [verdict |-> page.clip, prawdopodobienstwo |-> page.p]
    ELSE [verdict |-> page.ocr,
          prawdopodobienstwo |-> IF page.ocr = "cover" THEN 100 ELSE 0]

\* x put into a list sorted by descending probability, behind the entries
\* that are not smaller
InsertByProb(lista, x) ==
    LET n == Cardinality({k \in 1..Len(lista) :
                             lista[k].prawdopodobienstwo >= x.prawdopodobienstwo})
    IN SubSeq(lista, 1, n) \o <<x>> \o SubSeq(lista, n + 1, Len(lista))

\* sorted(znalezione_okladki, key=lambda x: x['prawdopodobienstwo'],
\* reverse=True): stable, entries of equal probability keep their order
RECURSIVE SortedByProb(_)
SortedByProb(lista) ==
    IF lista = <<>> THEN <<>>
    ELSE InsertByProb(SortedByProb(SubSeq(lista, 1, Len(lista) - 1)), lista[Len(lista)])

\* one iteration of the loop
SinglePage ==
    /\ scan.prog = "single" /\ scan.pc = "loop" /\ scan.i < Len(scan.pages)
    /\ LET page == scan.pages[scan.i + 1]
           next == [scan EXCEPT !.i = @ + 1]
       IN scan' =
            CASE page.src = "images_empty" -> [scan EXCEPT !.pc = "crashed"]
              [] page.src \in {"no_url", "fetch_error"} -> next
              [] OTHER ->
                   LET wynik_analizy == WynikAnalizy(scan.metoda, page)
                   IN IF wynik_analizy.verdict = "cover"
                      THEN [next EXCEPT !.znalezione_okladki =
                              Append(@, [numer_strony |-> scan.i + 1,
                                         prawdopodobienstwo |->
                                             wynik_analizy.prawdopodobienstwo])]
                      ELSE next
    /\ UNCHANGED gui_vars

\* the summary: the covers are printed in the order sorted() gives
SingleSummary ==
    /\ scan.prog = "single" /\ scan.pc = "loop" /\ scan.i = Len(scan.pages)
    /\ scan' = [scan EXCEPT !.pc = "done",
                            !.summary = SortedByProb(scan.znalezione_okladki)]
    /\ UNCHANGED gui_vars

InitSingle ==
    /\ GuiAbsent
    /\ \E pages \in ScanInputs(MaxScanPages, ScanPageKinds(SINGLE_PROBS)),
          metoda \in {"clip", "ocr"} :
          scan = [prog |-> "single", metoda |-> metoda, pages |-> pages, i |-> 0,
                  pc |-> "loop", znalezione_okladki |-> <<>>, summary |-> <<>>]

NextSingle ==
    \/ SinglePage
    \/ SingleSummary

SpecSingle == InitSingle /\ [][NextSingle]_vars

-----------------------------------------------------------------------------
(* Properties of the hybrid scans, checked under SpecHybrid *)

\* page k was downloaded
Pobrana(k) == scan.pages[k].src = "image"

\* the batches page k was passed to CLIP in
WsadyZ(k) ==
    {b \in 1..Len(scan.wsady) :
        \E j \in 1..Len(scan.wsady[b]) : scan.wsady[b][j].numer_strony = k}

\* the image of page k has been through the classifiers' part of the loop
Classified(k) ==
    IF scan.prog = "hybrid" THEN k <= scan.i /\ Pobrana(k) ELSE WsadyZ(k) # {}

\* CLIP returned a result for page k, not an error: in the batched scan the
\* call is made for the whole batch and fails for all of it
ClipReturned(k) ==
    /\ Classified(k)
    /\ scan.pages[k].clip # "error"
    /\ scan.prog = "batch" =>
          \A b \in WsadyZ(k) : \A j \in 1..Len(scan.wsady[b]) :
              scan.pages[scan.wsady[b][j].numer_strony].clip # "error"

\* C13: once the scan is over, a page whose OCR analysis returned an error
\* and which the visual classifier flagged as a cover is in the final list.
C13_ClipCoverSurvivesOcrError ==
    scan.pc = "done"
    => \A k \in 1..Len(scan.pages) :
          (ClipReturned(k) /\ scan.pages[k].clip = "cover" /\ scan.pages[k].ocr = "error")
          => k \in Numery(scan.wyniki_koncowe_okladki)

\* C14: a page on which both classifiers returned a result is in the final
\* list if and only if OCR found large text or CLIP chose the cover
\* description, so a page with large text is final whatever CLIP said; and
\* the pages of the final list are those of the CLIP list and of the OCR
\* list together.
C14_FinalIsOcrOrClip ==
    /\ \A k \in 1..Len(scan.pages) :
          (ClipReturned(k) /\ scan.pages[k].ocr # "error")
          => /\ k \in Numery(scan.wyniki_koncowe_okladki)
                   <=> (scan.pages[k].ocr = "cover" \/ scan.pages[k].clip = "cover")
             /\ scan.pages[k].ocr = "cover" => k \in Numery(scan.wyniki_koncowe_okladki)
             /\ k \in Numery(scan.wyniki_clip_okladki) <=> scan.pages[k].clip = "cover"
             /\ k \in Numery(scan.wyniki_ocr_okladki) <=> scan.pages[k].ocr = "cover"
    /\ Numery(scan.wyniki_koncowe_okladki)
          = Numery(scan.wyniki_clip_okladki) \cup Numery(scan.wyniki_ocr_okladki)

\* C14 witness: a scan ended with a final page only OCR flagged, a final
\* page only CLIP flagged, and a page neither flagged that is not final
C14_Witness ==
    /\ scan.pc = "done"
    /\ \E a, b, c \in 1..Len(scan.pages) :
          /\ ClipReturned(a) /\ scan.pages[a].ocr = "cover" /\ scan.pages[a].clip = "plain"
          /\ ClipReturned(b) /\ scan.pages[b].ocr = "plain" /\ scan.pages[b].clip = "cover"
          /\ ClipReturned(c) /\ scan.pages[c].ocr = "plain" /\ scan.pages[c].clip = "plain"
          /\ Numery(scan.wyniki_koncowe_okladki) = {a, b}

\* C20: when the loop of the batched scan is over, batch_danych is empty and
\* every page that was downloaded has been passed to CLIP in exactly one
\* batch, none of more than rozmiar_wsadu images.
C20_NoPageLeftInBatch ==
    (scan.prog = "batch" /\ scan.pc = "done")
    => /\ scan.batch_danych = <<>>
       /\ \A k \in 1..Len(scan.pages) : Pobrana(k) => Cardinality(WsadyZ(k)) = 1
       /\ \A b \in 1..Len(scan.wsady) : Len(scan.wsady[b]) <= scan.rozmiar_wsadu

-----------------------------------------------------------------------------
(* The batched scan against the unbatched one, checked under SpecHybrid *)

\* CLIP returns a result on every image of the scan
ClipNeverFails ==
    \A k \in 1..Len(scan.pages) : Pobrana(k) => scan.pages[k].clip # "error"

\* C26: when CLIP fails on no image, the pages of the final, CLIP and OCR
\* lists of a batched scan are those of the unbatched hybrid scan of the
\* same pages, whatever rozmiar_wsadu is.
C26_BatchedEqualsUnbatched ==
    (scan.prog = "batch" /\ scan.pc = "done" /\ ClipNeverFails) =>
        LET unbatched == HybridRun(ScanStart("hybrid", scan.pages, 0))
        IN /\ Numery(scan.wyniki_koncowe_okladki) = Numery(unbatched.wyniki_koncowe_okladki)
           /\ Numery(scan.wyniki_clip_okladki) = Numery(unbatched.wyniki_clip_okladki)
           /\ Numery(scan.wyniki_ocr_okladki) = Numery(unbatched.wyniki_ocr_okladki)

-----------------------------------------------------------------------------
(* Property of the single-classifier scans, checked under SpecSingle *)

\* C19: the summary lists the cover pages in ascending page-number order,
\* whatever their probabilities.
C19_SummaryInPageOrder ==
    (scan.prog = "single" /\ scan.pc = "done")
    => /\ Len(scan.summary) = Len(scan.znalezione_okladki)
       /\ \A k \in 1..(Len(scan.summary) - 1) :
             scan.summary[k].numer_strony < scan.summary[k + 1].numer_strony

-----------------------------------------------------------------------------
(* Properties of run_analysis, checked under SpecAnalysis *)

\* the last step of the program was an iteration of the loop of run_analysis
\* that did not end in an uncaught exception
PageStepped ==
    last.op = "run_analysis" /\ last.step = "page" /\ last.outcome # "crash"

\* the last step of the program was the return of run_analysis
AnalysisReturned == last.op = "run_analysis" /\ last.step = "end"

\* C12: when run_analysis over pages s..e returns, analysis_results holds
\* one entry per page s..e in ascending page order; an iteration on a page
\* with no image service URL, a failed download or a failed classification
\* appends the entry of that page with is_cover False and prob 0, and the
\* loop goes on to the next page.
C12_OneEntryPerPage ==
    /\ AnalysisReturned =>
          /\ Len(analysis_results) = last.end_page - last.start_page + 1
          /\ \A k \in 1..Len(analysis_results) :
                analysis_results[k].page_num = last.start_page + k - 1
    /\ PageStepped =>
          /\ Len(analysis_results) = last.i + 1
          /\ analysis_results[last.i + 1].page_num = last.page_num
          /\ last.outcome \in {"no_url", "fetch_error", "classify_error"} =>
                /\ ~analysis_results[last.i + 1].is_cover
                /\ analysis_results[last.i + 1].prob = 0

\* C12 witness: an analysis of three pages returned; its first page had no
\* image service URL and a later one was classified as a cover
C12_Witness ==
    /\ AnalysisReturned
    /\ last.start_page = 1 /\ last.end_page = 3
    /\ canvases[1].img = "none"
    /\ analysis_results[1].prob = 0
    /\ \E k \in 2..3 : analysis_results[k].is_cover

\* C15: every iteration of the loop posts update_progress with
\* (i + 1) / total * 100, and the progress bar shows 100 when show_summary
\* runs.
C15_ProgressAfterEveryPage ==
    /\ PageStepped =>
          /\ after_queue # <<>>
          /\ after_queue[Len(after_queue)] =
                [fn |-> "update_progress",
                 value |-> [num |-> (last.i + 1) * 100, den |-> last.total]]
    /\ last.op = "show_summary" => progress.value.num = 100 * progress.value.den

-----------------------------------------------------------------------------
(* Properties of the threads of the main window, checked under Spec *)

\* a thread that was already running has run one of its statements
WorkerStep ==
    /\ Len(worker') = Len(worker)
    /\ \E w \in 1..Len(worker) : worker'[w] # worker[w]

\* a thread is in run_analysis
AnalysisRunning ==
    \E w \in AliveWorkers : worker[w].pc \in {"analysis_begin", "analysis_loop"}

\* C16: a statement run by the fetch thread or the analysis thread changes
\* no button, no entry and no progress bar and writes nothing in the log
\* box; what it changes on screen it posts with root.after.
C16_WorkersPostUiUpdates ==
    [][WorkerStep =>
          /\ widgets' = widgets
          /\ start_entry' = start_entry
          /\ end_entry' = end_entry
          /\ progress' = progress
          /\ last'.log = <<>>]_vars

\* C17: while a thread is in run_analysis the display thread has no action
\* that reads or writes analysis_results: start_fetch and open_editor cannot
\* be clicked and show_summary is not the callback to run next.
C17_ResultsOwnedByWorker ==
    AnalysisRunning =>
        /\ ~widgets.fetch_btn
        /\ ~widgets.edit_btn
        /\ ~(after_queue # <<>> /\ Head(after_queue).fn = "show_summary")

\* C18: at most one thread, fetch or analysis, is running at any time.
C18_AtMostOneWorker == Cardinality(AliveWorkers) <= 1

-----------------------------------------------------------------------------
(* Progress of an analysis, checked under SpecAnalysisLive *)

\* the statements a thread in run_analysis can run
AnalysisThread ==
    \E w \in 1..MaxWorkers :
        \/ AnalysisBegin(w)
        \/ \E outcome \in PageOutcomes : AnalysisPage(w, outcome)
        \/ AnalysisEnd(w)

\* SpecAnalysis with its scheduling: a thread that can run a statement runs
\* it, and the main loop of Tk runs the callbacks posted with root.after
SpecAnalysisLive ==
    InitAnalysis /\ [][NextAnalysis]_vars /\ WF_vars(AnalysisThread) /\ WF_vars(RunAfter)

\* C21: an analysis that start_analysis started (the progress bar is shown)
\* leads to show_summary: the progress bar is hidden and the controls are
\* enabled again.
C21_AnalysisEndsInSummary ==
    progress.shown ~> (~progress.shown /\ widgets.fetch_btn /\ widgets.analyze_btn)

-----------------------------------------------------------------------------
(* Further properties of save_manifest, checked under SpecSave *)

\* save_manifest ran to the file dialog
SaveRan == last.op = "save_manifest" /\ last.outcome \in Dialogs

\* C22: after a save the manifest has no 'structures' key, or a non-empty
\* 'structures' whose every entry is an sc:Range with a non-empty canvases
\* list; an empty 'structures' array is never produced.
C22_NoEmptyStructures ==
    SaveRan =>
        \/ ~manifest.structures.present
        \/ /\ manifest.structures.v # <<>>
           /\ \A k \in 1..Len(manifest.structures.v) :
                 /\ manifest.structures.v[k].type = "sc:Range"
                 /\ manifest.structures.v[k].canvases # <<>>

\* C25: a save whose file dialog is cancelled, or whose write fails,
\* persists nothing and leaves self.manifest as it was before the click;
\* on every path that reaches its end the editor window is closed.
C25_CancelledSaveNoEffect ==
    /\ (last.op = "save_manifest" /\ last.outcome \in {"cancel", "write_error"}) =>
          /\ last.file = None
          /\ manifest = last.pre
    /\ (last.op = "save_manifest" /\ last.outcome \in Dialogs \cup {"no_manifest"}) =>
          editors = <<>>

-----------------------------------------------------------------------------
(* The editor after an analysis: show_summary has run for an analysis of   *)
(* pages s..e of a fetched document, and the user opens the editor, works  *)
(* in it, saves or closes it, and opens it again.                          *)

\* analysis_results of an analysis of pages s..e that found the pages of
\* covers to be covers
ResultsOf(s, e, covers) ==
    [k \in 1..(e - s + 1) |->
        PageDataOf(s + k - 1, IF s + k - 1 \in covers THEN "cover" ELSE "not_cover")]

MaxEditorPages == 2     \* pages of a document in this specification

InitEditor ==
    \E n \in 1..MaxEditorPages :
    \E s \in 1..n :
    \E e \in s..n :
    \E covers \in SUBSET (s..e) :
        LET doc == Document(StrV(<<"a">>), [k \in 1..n |-> Canvas(PageId(k), "svc")],
                            NoStructures)
        IN /\ manifest = doc
           /\ canvases = doc.sequences
           /\ total_pages = n
           /\ analysis_results = ResultsOf(s, e, covers)
           /\ editors = <<>>
           /\ widgets = ToggleUi(TRUE, ResultsOf(s, e, covers), n)
           /\ start_entry = Str(s)
           /\ end_entry = Str(e)
           /\ url_entry = <<"u">>
           /\ worker = <<[pc |-> "done"], [pc |-> "done"]>>
           /\ after_queue = <<>>
           /\ progress = [shown |-> FALSE, value |-> [num |-> 100, den |-> 1]]
           /\ last = [op |-> "show_summary",
                      log |-> IF covers # {} THEN <<"SUMMARY", "COVERS_FOUND", "DONE">>
                              ELSE <<"SUMMARY", "NO_COVERS", "DONE">>]
           /\ scan = None

NextEditor ==
    \/ OpenEditor
    \/ \E e \in 1..MaxEditors, p \in 1..MaxEditorPages : ToggleCheck(e, p)
    \/ \E e \in 1..MaxEditors : DeselectAll(e)
    \/ \E e \in 1..MaxEditors : CloseEditor(e)
    \/ \E e \in 1..MaxEditors, dialog \in Dialogs : SaveManifest(e, dialog)

SpecEditor == InitEditor /\ [][NextEditor]_vars

\* the pages the latest analysis recorded as covers
AnalysedCovers ==
    {analysis_results[k].page_num :
        k \in {j \in 1..Len(analysis_results) : analysis_results[j].is_cover}}

\* C29: the editor opens with one checkbox per canvas, pages 1..N; page p
\* is checked exactly when the latest analysis has a result for p with
\* is_cover true, so a page outside the analysed range is unchecked;
\* "deselect all" leaves no page checked, and a save with no page checked
\* removes 'structures'.
C29_EditorShowsAnalysis ==
    [][/\ Len(editors') > Len(editors) =>
             LET check_vars == editors'[Len(editors')].check_vars
             IN /\ DOMAIN check_vars = 1..Len(canvases)
                /\ \A p \in 1..Len(canvases) : check_vars[p] <=> p \in AnalysedCovers
       /\ \A e \in 1..Len(editors) :
             DeselectAll(e) =>
                /\ \A p \in 1..Len(canvases) : ~editors'[e].check_vars[p]
                /\ CoverPages(editors'[e].check_vars) = <<>>
       /\ \A e \in 1..Len(editors), dialog \in Dialogs :
             (CoverPages(editors[e].check_vars) = <<>> /\ SaveManifest(e, dialog)) =>
                ~manifest'.structures.present]_vars

\* C29 witness: the editor has just opened on a document of two pages of
\* which page 2 was analysed and found a cover; page 2 is checked, page 1
\* is not
C29_Witness ==
    /\ last.op = "open_editor"
    /\ Len(canvases) = 2
    /\ Len(analysis_results) = 1
    /\ AnalysedCovers = {2}
    /\ editors # <<>>
    /\ editors[1].check_vars = <<FALSE, TRUE>>

-----------------------------------------------------------------------------
(* Further properties of the main window, checked under Spec *)

\* C30: when the first fetch of a run has found N >= 1 pages and its
\* toggle_ui(tk.NORMAL) ends, the range fields hold 1 and N.
C30_RangeFilledAfterFetch ==
    [][(/\ Len(worker) = 1
        /\ worker[1].pc = "toggle_ui"
        /\ worker'[1].pc = "done"
        /\ manifest # None
        /\ total_pages >= 1)
       => /\ start_entry' = Str(1)
          /\ end_entry' = Str(total_pages)]_vars

-----------------------------------------------------------------------------
(* start_analysis on every text of the range fields: the specification of  *)
(* the analysis with numbers outside the pages of the document             *)

\* what the user can type in one range field: nothing, or a number from 0
\* to one more than the pages of the largest document
FieldTexts == {<<>>} \cup {Str(k) : k \in 0..(MaxPages + 1)}

\* a successful fetch of a document of 1..MaxPages pages, each with an image
\* service URL, has ended
InitRange ==
    \E n \in 1..MaxPages :
        LET doc == Document(StrV(<<"a">>), [k \in 1..n |-> Canvas(PageId(k), "svc")],
                            NoStructures)
        IN /\ manifest = doc
           /\ canvases = doc.sequences
           /\ total_pages = n
           /\ analysis_results = <<>>
           /\ editors = <<>>
           /\ widgets = ToggleUi(TRUE, <<>>, n)
           /\ start_entry = <<>>
           /\ end_entry = <<>>
           /\ url_entry = <<"u">>
           /\ worker = <<[pc |-> "done"]>>
           /\ after_queue = <<>>
           /\ progress = [shown |-> FALSE, value |-> [num |-> 0, den |-> 1]]
           /\ last = [op |-> "fetch_manifest", log |-> <<>>]
           /\ scan = None

NextRange ==
    \/ \E start_text \in FieldTexts, end_text \in FieldTexts :
          TypeRange(<<start_text, end_text>>)
    \/ StartAnalysis
    \/ \E w \in 1..MaxWorkers : AnalysisBegin(w)
    \/ \E w \in 1..MaxWorkers, outcome \in PageOutcomes : AnalysisPage(w, outcome)
    \/ \E w \in 1..MaxWorkers : AnalysisEnd(w)
    \/ RunAfter

SpecRange == InitRange /\ [][NextRange]_vars

\* both fields hold integers with 1 <= start <= end <= total_pages
ValidRange ==
    /\ IsIntText(start_entry) /\ IsIntText(end_entry)
    /\ 1 <= ParseInt(start_entry)
    /\ ParseInt(start_entry) <= ParseInt(end_entry)
    /\ ParseInt(end_entry) <= total_pages

\* C27: start_analysis starts a thread, for the range typed, only when the
\* range is valid; on any other input it logs an error and starts no
\* thread, leaves the controls enabled and leaves analysis_results,
\* manifest and canvases unchanged.
C27_InvalidRangeChangesNothing ==
    [][StartAnalysis =>
          IF ValidRange
          THEN /\ worker' = Append(worker, worker'[Len(worker')])
               /\ worker'[Len(worker')].start_page = ParseInt(start_entry)
               /\ worker'[Len(worker')].end_page = ParseInt(end_entry)
          ELSE /\ last'.op = "start_analysis" /\ last'.log # <<>>
               /\ worker' = worker
               /\ widgets' = widgets /\ widgets'.analyze_btn
               /\ progress' = progress
               /\ analysis_results' = analysis_results
               /\ manifest' = manifest
               /\ canvases' = canvases]_vars

\* C27 witness: start_analysis has just refused a range that starts after
\* its end, on a document that has both pages
C27_Witness ==
    /\ last = [op |-> "start_analysis", log |-> <<"ERR_ORDER">>]
    /\ total_pages >= 2
    /\ start_entry = Str(2) /\ end_entry = Str(1)
    /\ Len(worker) = 1
    /\ widgets.analyze_btn

\* C23: save_manifest runs only when no thread is running, and the
\* manifest, canvases and total_pages it reads belong to one document.
C23_SaveReadsOneDocument ==
    last.op = "save_manifest" =>
        /\ AliveWorkers = {}
        /\ last.pre # None =>
              /\ last.canvases = last.pre.sequences
              /\ last.total_pages = Len(last.canvases)

\* C28: the edit button is enabled only when no thread is running and
\* analysis_results is not empty.
C28_EditOnlyWithResults ==
    widgets.edit_btn => (AliveWorkers = {} /\ analysis_results # <<>>)

\* C24: when no thread is running, canvases and total_pages are those of
\* the manifest held; with no manifest held (none fetched yet, or the last
\* fetch failed) there are no pages and the analyse button is disabled.
C24_PagesOfManifestHeld ==
    AliveWorkers = {} =>
        IF manifest = None
        THEN canvases = <<>> /\ total_pages = 0 /\ ~widgets.analyze_btn
        ELSE canvases = manifest.sequences /\ total_pages = Len(canvases)

====
